---------------------------- MODULE Spec2Model ----------------------------
(***************************************************************************)
(* A model of the utc-datetime crate (src/src/lib.rs): the UtcDatetime     *)
(* value, its validating constructor, the epoch-second and weekday         *)
(* computations, the Display rendering, the string parser and the free     *)
(* calendar functions.                                                     *)
(*                                                                         *)
(* Strings are sequences of Unicode code points.  A u32 is kept as two     *)
(* 16-bit limbs (hi, lo), value hi * 2^16 + lo, because the model checker's *)
(* integers are narrower than a u32; the carry out of the high limb is the *)
(* 32-bit overflow.                                                        *)
(***************************************************************************)
EXTENDS Integers, Sequences, FiniteSets, TLC

VARIABLES
    pc,                 \* where the calling program stands
    overflow_checks,    \* build profile: TRUE = overflow checks on (debug), FALSE = wrapping (release)
    arg,                \* the six integers handed to UtcDatetime::new
    created,            \* Result<UtcDatetime, IllegalTimeError> of new
    dim,                \* outcome of a direct call of days_of_the_month
    stamp,              \* Result<u32, IllegalTimeError> of timestamp
    wday,               \* outcome of weekday
    other,              \* a second UtcDatetime, for the derived comparison
    cmp,                \* outcome of comparing created with other: the ordering and ==
    text,               \* the &str handed to from_string
    time_string_array,  \* from_string's token vector after retain
    parsed,             \* Result of from_string
    shown               \* the Display rendering

vars == <<pc, overflow_checks, arg, created, dim, stamp, wday, other, cmp,
          text, time_string_array, parsed, shown>>

-----------------------------------------------------------------------------
(* Bounds of the model. *)

\* Last year of the epoch-second samples (the u32 ceiling falls in 2106).
MaxYear == 2107

\* Longest string of the exhaustive tokenizer samples.
MaxLen == 4

-----------------------------------------------------------------------------
(* Values. *)

\* struct UtcDatetime
DT(year, month, day, hour, minute, second) ==
    [year |-> year, month |-> month, day |-> day,
     hour |-> hour, minute |-> minute, second |-> second]

NoDT == DT(0, 0, 0, 0, 0, 0)

\* Result<UtcDatetime, IllegalTimeError>, or the panic that unwinds instead.
Ok(v) == [tag |-> "Ok", val |-> v, err |-> "None"]
Err(e) == [tag |-> "Err", val |-> NoDT, err |-> e]
Panic == [tag |-> "Panic", val |-> NoDT, err |-> "None"]
NoResult == [tag |-> "None", val |-> NoDT, err |-> "None"]

\* A u8 outcome: the value returned, or a panic.
Ret(n) == [tag |-> "Ok", val |-> n]
RetPanic == [tag |-> "Panic", val |-> 0]
NoRet == [tag |-> "None", val |-> 0]

-----------------------------------------------------------------------------
(* u32 arithmetic on two 16-bit limbs. *)

Radix == 2^16

\* The u32 holding n, for 0 <= n < 2^31.
U32(n) == [hi |-> n \div Radix, lo |-> n % Radix]

\* total_seconds += n on a u32.  carry records that the true sum passed u32::MAX:
\* the addition then panics when the build checks overflow, and wraps otherwise.
AddAssign(total, n, checks) ==
    LET lo == total.lo + (n % Radix)
        hi == total.hi + (n \div Radix) + (lo \div Radix)
    IN  [hi |-> hi % Radix, lo |-> lo % Radix,
         carry |-> total.carry \/ hi >= Radix,
         panic |-> total.panic \/ (checks /\ hi >= Radix)]

\* ts % m on a u32, for m below 2^23.
U32Rem(v, m) == ((((v.hi * 256) % m) * 256) + v.lo) % m

-----------------------------------------------------------------------------
(* Free calendar functions. *)

\* Mutant: the Julian rule, every fourth year.
leap_year_julian(year) == year % 4 = 0

leap_year(year) ==
    (year % 4 = 0 /\ year % 100 # 0) \/ year % 400 = 0

days_of_the_year(year) == IF leap_year(year) THEN 366 ELSE 365

days_of_the_month(year, month) ==
    CASE month \in {1, 3, 5, 7, 8, 10, 12} -> Ret(31)
      [] month \in {4, 6, 9, 11} -> Ret(30)
      [] month = 2 -> IF leap_year(year) THEN Ret(29) ELSE Ret(28)
      [] OTHER -> RetPanic

-----------------------------------------------------------------------------
(* impl UtcDatetime *)

\* Mutant: the day is checked before the month.
new_day_first(year, month, day, hour, minute, second) ==
    IF year < 1970 THEN Err("YearNumberError")
    ELSE LET days == days_of_the_month(year, month)
         IN  IF day # 0 /\ days.tag = "Panic" THEN Panic
             ELSE IF day = 0 \/ day > days.val THEN Err("DayNumberError")
             ELSE IF month = 0 \/ month > 12 THEN Err("MonthNumberError")
             ELSE IF hour > 23 THEN Err("HourNumberError")
             ELSE IF minute > 59 THEN Err("MinuteNumberError")
             ELSE IF second > 59 THEN Err("SecondNumberError")
             ELSE Ok(DT(year, month, day, hour, minute, second))

new(year, month, day, hour, minute, second) ==
    IF year < 1970 THEN Err("YearNumberError")
    ELSE IF month = 0 \/ month > 12 THEN Err("MonthNumberError")
    ELSE LET days == days_of_the_month(year, month)
         IN  IF day # 0 /\ days.tag = "Panic" THEN Panic
             ELSE IF day = 0 \/ day > days.val THEN Err("DayNumberError")
             ELSE IF hour > 23 THEN Err("HourNumberError")
             ELSE IF minute > 59 THEN Err("MinuteNumberError")
             ELSE IF second > 59 THEN Err("SecondNumberError")
             ELSE Ok(DT(year, month, day, hour, minute, second))

\* for i in 1970..self.year { total_seconds += days_of_the_year(i)*24*60*60 }
\* A panic ends the loop.
RECURSIVE YearLoop(_, _, _, _)
YearLoop(i, year, total, checks) ==
    IF i >= year \/ total.panic THEN total
    ELSE YearLoop(i + 1, year,
                  AddAssign(total, days_of_the_year(i) * 24 * 60 * 60, checks), checks)

\* for i in 1..self.month { total_seconds += days_of_the_month(self.year,i) as u32 *24*60*60 }
RECURSIVE MonthLoop(_, _, _, _)
MonthLoop(i, self, total, checks) ==
    IF i >= self.month \/ total.panic THEN total
    ELSE LET days_num == days_of_the_month(self.year, i)
         IN  IF days_num.tag = "Panic" THEN [total EXCEPT !.panic = TRUE]
             ELSE MonthLoop(i + 1, self,
                            AddAssign(total, days_num.val * 24 * 60 * 60, checks), checks)

\* total_seconds += (day-1)*60*60*24 + hour*60*60 + minute*60 + second
FinalAdd(self, total, checks) ==
    IF total.panic THEN total
    ELSE AddAssign(total, (self.day - 1) * 60 * 60 * 24 + self.hour * 60 * 60
                          + self.minute * 60 + self.second, checks)

\* The year loop's result for every year of the samples and both build profiles,
\* computed once.
year_totals ==
    [checks \in BOOLEAN, year \in 1970 .. MaxYear + 1 |->
        YearLoop(1970, year, [hi |-> 0, lo |-> 0, carry |-> FALSE, panic |-> FALSE], checks)]

\* let mut total_seconds = 0, then the year loop.
AfterYearLoop(year, checks) ==
    IF year \in 1970 .. MaxYear + 1 THEN year_totals[checks, year]
    ELSE YearLoop(1970, year, [hi |-> 0, lo |-> 0, carry |-> FALSE, panic |-> FALSE], checks)

\* The running total after the year loop, the month loop and the final addition.
total_seconds(self, checks) ==
    FinalAdd(self, MonthLoop(1, self, AfterYearLoop(self.year, checks), checks), checks)

\* Result<u32, IllegalTimeError>; carried tells that the total wrapped on the way.
StampOk(t) == [tag |-> "Ok", val |-> [hi |-> t.hi, lo |-> t.lo], carried |-> t.carry, err |-> "None"]
StampErr(e) == [tag |-> "Err", val |-> U32(0), carried |-> FALSE, err |-> e]
StampPanic == [tag |-> "Panic", val |-> U32(0), carried |-> TRUE, err |-> "None"]
NoStamp == [tag |-> "None", val |-> U32(0), carried |-> FALSE, err |-> "None"]

\* Ok(total_seconds), unless an addition panicked.
StampOf(t) == IF t.panic THEN StampPanic ELSE StampOk(t)

timestamp(self, checks) ==
    IF self.year < 1970 THEN StampErr("YearNumberError")
    ELSE StampOf(total_seconds(self, checks))

\* Mutant: the epoch day taken for a Wednesday.
weekday_epoch_wednesday(r) ==
    IF r.tag # "Ok" THEN RetPanic
    ELSE Ret((3 + U32Rem(r.val, 7 * 24 * 3600) \div (24 * 3600)) % 7)

\* The body of weekday after let ts = self.timestamp(): the unwrap, then the arithmetic.
weekday_of(r) ==
    IF r.tag # "Ok" THEN RetPanic
    ELSE LET ts == r.val
             this_week_seconds == U32Rem(ts, 7 * 24 * 3600)
             this_week_days == this_week_seconds \div (24 * 3600)
             week_number == (4 + this_week_days) % 7
         IN  Ret(week_number % 256)

weekday(self, checks) == weekday_of(timestamp(self, checks))

-----------------------------------------------------------------------------
(* impl fmt::Display for UtcDatetime *)

\* "{}" of an unsigned integer: its decimal digits, no padding.
RECURSIVE Decimal(_)
Decimal(n) ==
    IF n < 10 THEN <<48 + n>> ELSE Append(Decimal(n \div 10), 48 + (n % 10))

\* "{:02}": the decimal digits, zero-padded to a width of at least two.
Pad2(n) == IF n < 10 THEN <<48>> \o Decimal(n) ELSE Decimal(n)

\* Mutant: "{}" in place of "{:02}".
fmt_unpadded(self) ==
    Decimal(self.year) \o <<45>> \o Decimal(self.month) \o <<45>> \o Decimal(self.day)
        \o <<32>> \o Decimal(self.hour) \o <<58>> \o Decimal(self.minute)
        \o <<58>> \o Decimal(self.second)

\* write!(f, "{}-{:02}-{:02} {:02}:{:02}:{:02}", ...)
fmt(self) ==
    Decimal(self.year) \o <<45>> \o Pad2(self.month) \o <<45>> \o Pad2(self.day)
        \o <<32>> \o Pad2(self.hour) \o <<58>> \o Pad2(self.minute)
        \o <<58>> \o Pad2(self.second)

-----------------------------------------------------------------------------
(* UtcDatetime::from_string *)

\* The closure handed to split: |x| (x as u8) < 48 || x as u8 > 57, x a char;
\* the cast keeps the low eight bits of the code point.
is_separator(x) == (x % 256) < 48 \/ (x % 256) > 57

\* str::split: the pieces between separators, empty ones included; cur is the
\* piece being read and acc the pieces already closed.
RECURSIVE split(_, _, _, _)
split(time_str, i, cur, acc) ==
    IF i > Len(time_str) THEN Append(acc, cur)
    ELSE IF is_separator(time_str[i]) THEN split(time_str, i + 1, <<>>, Append(acc, cur))
    ELSE split(time_str, i + 1, Append(cur, time_str[i]), acc)

NonEmpty(x) == Len(x) # 0

\* split(...).collect() followed by retain(|&x| x.len() != 0)
tokens(time_str) == SelectSeq(split(time_str, 1, <<>>, <<>>), NonEmpty)

\* str::parse::<uN>() on a token with no sign: every character must be an ASCII
\* digit and the value must not pass max; acc is the value read so far.
RECURSIVE parse(_, _, _, _)
parse(tok, i, acc, max) ==
    IF i > Len(tok) THEN [ok |-> Len(tok) > 0, val |-> acc]
    ELSE IF tok[i] \notin 48 .. 57 THEN [ok |-> FALSE, val |-> 0]
    ELSE IF acc * 10 + (tok[i] - 48) > max THEN [ok |-> FALSE, val |-> 0]
    ELSE parse(tok, i + 1, acc * 10 + (tok[i] - 48), max)

\* The six parse().unwrap() calls, then new.
from_fields(year, month, day, hour, minute, second) ==
    IF ~(year.ok /\ month.ok /\ day.ok /\ hour.ok /\ minute.ok /\ second.ok) THEN Panic
    ELSE new(year.val, month.val, day.val, hour.val, minute.val, second.val)

\* from_string once time_string_array is built.
from_tokens(arr) ==
    IF Len(arr) # 6 THEN Err("TimeStringError")
    ELSE from_fields(parse(arr[1], 1, 0, 65535), parse(arr[2], 1, 0, 255),
                     parse(arr[3], 1, 0, 255), parse(arr[4], 1, 0, 255),
                     parse(arr[5], 1, 0, 255), parse(arr[6], 1, 0, 255))

from_string(time_str) == from_tokens(tokens(time_str))

-----------------------------------------------------------------------------
(* #[derive(PartialEq, PartialOrd)] on UtcDatetime: field by field, in the  *)
(* order the fields are declared.                                           *)

\* Ordering of two integers.
Ordering(x, y) == IF x < y THEN "Less" ELSE IF x > y THEN "Greater" ELSE "Equal"

\* The first ordering that is not Equal.
RECURSIVE FirstUnequal(_)
FirstUnequal(os) ==
    IF os = <<>> THEN "Equal"
    ELSE IF Head(os) # "Equal" THEN Head(os)
    ELSE FirstUnequal(Tail(os))

\* Mutant: the fields compared as if day were declared before year.
partial_cmp_day_first(a, b) ==
    FirstUnequal(<<Ordering(a.day, b.day), Ordering(a.year, b.year),
                   Ordering(a.month, b.month), Ordering(a.hour, b.hour),
                   Ordering(a.minute, b.minute), Ordering(a.second, b.second)>>)

\* derive(PartialOrd)
partial_cmp(a, b) ==
    FirstUnequal(<<Ordering(a.year, b.year), Ordering(a.month, b.month),
                   Ordering(a.day, b.day), Ordering(a.hour, b.hour),
                   Ordering(a.minute, b.minute), Ordering(a.second, b.second)>>)

\* derive(PartialEq)
eq(a, b) ==
    /\ a.year = b.year /\ a.month = b.month /\ a.day = b.day
    /\ a.hour = b.hour /\ a.minute = b.minute /\ a.second = b.second

NoCmp == [ord |-> "None", eq |-> FALSE]

-----------------------------------------------------------------------------
(* Reference calendar, independent of the code: day numbers by the civil-    *)
(* calendar formula, used only to state the properties.                     *)

\* Whole days from 1970-01-01 to year-month-day (proleptic Gregorian).
RefDays(year, month, day) ==
    LET y == IF month <= 2 THEN year - 1 ELSE year
        era == y \div 400
        yoe == y - era * 400
        mp == IF month > 2 THEN month - 3 ELSE month + 9
        doy == (153 * mp + 2) \div 5 + day - 1
        doe == yoe * 365 + yoe \div 4 - yoe \div 100 + doy
    IN  era * 146097 + doe - 719468

RefDayOf(d) == RefDays(d.year, d.month, d.day)

RefSecOfDay(d) == d.hour * 3600 + d.minute * 60 + d.second

\* The first day of the month after d's.
RefNextMonth(d) ==
    IF d.month = 12 THEN DT(d.year + 1, 1, 1, d.hour, d.minute, d.second)
    ELSE DT(d.year, d.month + 1, 1, d.hour, d.minute, d.second)

\* The same time of day one calendar day later.
RefNextDay(d) ==
    IF RefDayOf(RefNextMonth(d)) = RefDayOf(d) + 1 THEN RefNextMonth(d)
    ELSE [d EXCEPT !.day = d.day + 1]

\* The instant one second later.
RefNextSecond(d) ==
    IF d.second < 59 THEN [d EXCEPT !.second = d.second + 1]
    ELSE IF d.minute < 59 THEN [d EXCEPT !.minute = d.minute + 1, !.second = 0]
    ELSE IF d.hour < 23 THEN [d EXCEPT !.hour = d.hour + 1, !.minute = 0, !.second = 0]
    ELSE RefNextDay([d EXCEPT !.hour = 0, !.minute = 0, !.second = 0])

\* a is chronologically before b.
RefBefore(a, b) ==
    \/ RefDayOf(a) < RefDayOf(b)
    \/ RefDayOf(a) = RefDayOf(b) /\ RefSecOfDay(a) < RefSecOfDay(b)

\* 2106-02-07 06:28:15, the last instant whose second count fits in 32 bits.
Ceiling == DT(2106, 2, 7, 6, 28, 15)

InU32Range(d) == ~RefBefore(Ceiling, d)

\* days * 86400 + secs as a u32 in limbs (86400 = 2^16 + 20864), for days < 2^16.
RefSeconds(d) ==
    LET days == RefDayOf(d)
        low == U32(days * 20864 + RefSecOfDay(d))
    IN  [hi |-> days + low.hi, lo |-> low.lo]

\* v + 1 in limbs, as a running total that did not wrap.
PlusOne(v) ==
    IF v.lo = Radix - 1 THEN [hi |-> v.hi + 1, lo |-> 0, carry |-> FALSE]
    ELSE [hi |-> v.hi, lo |-> v.lo + 1, carry |-> FALSE]

-----------------------------------------------------------------------------
(* Calls of the constructor and of the methods of a constructed value. *)

\* let created = UtcDatetime::new(arg...)
New ==
    /\ pc = "start"
    /\ created' = new(arg.year, arg.month, arg.day, arg.hour, arg.minute, arg.second)
    /\ pc' = IF created'.tag = "Ok" THEN "constructed" ELSE "rejected"
    /\ UNCHANGED <<overflow_checks, arg, dim, stamp, wday, other, cmp,
                   text, time_string_array, parsed, shown>>

\* let stamp = created.timestamp()
Timestamp ==
    /\ pc = "constructed"
    /\ stamp' = timestamp(created.val, overflow_checks)
    /\ pc' = "stamped"
    /\ UNCHANGED <<overflow_checks, arg, created, dim, wday, other, cmp,
                   text, time_string_array, parsed, shown>>

\* let wday = created.weekday()
Weekday ==
    /\ pc = "stamped"
    /\ wday' = weekday(created.val, overflow_checks)
    /\ pc' = "done"
    /\ UNCHANGED <<overflow_checks, arg, created, dim, stamp, other, cmp,
                   text, time_string_array, parsed, shown>>

\* let dim = days_of_the_month(arg.year, arg.month), the public free function
DaysOfTheMonth ==
    /\ pc = "start"
    /\ dim' = days_of_the_month(arg.year, arg.month)
    /\ pc' = "looked_up"
    /\ UNCHANGED <<overflow_checks, arg, created, stamp, wday, other, cmp,
                   text, time_string_array, parsed, shown>>

-----------------------------------------------------------------------------
(* Spec: a caller hands arbitrary u16/u8 values, valid or not, to new and   *)
(* to days_of_the_month.                                                    *)

ApiArgs ==
    {DT(y, m, d, h, mi, s) :
        y \in {0, 1969, 1970, 2000, 2020, 2021, 2100, 65535},
        m \in (0 .. 13) \cup {99, 255},
        d \in {0, 1, 28, 29, 30, 31, 32, 99, 255},
        h \in {0, 23, 24, 255}, mi \in {0, 59, 60}, s \in {0, 59, 60}}

Init ==
    /\ pc = "start"
    /\ overflow_checks \in BOOLEAN
    /\ arg \in ApiArgs
    /\ created = NoResult
    /\ dim = NoRet
    /\ stamp = NoStamp
    /\ wday = NoRet
    /\ other = NoResult
    /\ cmp = NoCmp
    /\ text = <<>>
    /\ time_string_array = <<>>
    /\ parsed = NoResult
    /\ shown = <<>>

Next == New \/ DaysOfTheMonth

Spec == Init /\ [][Next]_vars

\* Days of the month by the reference calendar.
RefMonthLength(year, month) ==
    RefDayOf(RefNextMonth(DT(year, month, 1, 0, 0, 0))) - RefDays(year, month, 1)

\* The error of the first failing check in the order year, month, day, hour,
\* minute, second; "None" when no check fails.
FirstFailure(a) ==
    IF a.year < 1970 THEN "YearNumberError"
    ELSE IF a.month \notin 1 .. 12 THEN "MonthNumberError"
    ELSE IF a.day \notin 1 .. RefMonthLength(a.year, a.month) THEN "DayNumberError"
    ELSE IF a.hour \notin 0 .. 23 THEN "HourNumberError"
    ELSE IF a.minute \notin 0 .. 59 THEN "MinuteNumberError"
    ELSE IF a.second \notin 0 .. 59 THEN "SecondNumberError"
    ELSE "None"

\* C1: new returns the error of the first failing check in the order year,
\* month, day, hour, minute, second, whatever the later fields hold, and never
\* reaches the days-in-month lookup with a bad month (no panic); it returns Ok
\* exactly when no check fails, and the Ok value holds the six inputs unchanged.
C1_NewFirstFailingCheck ==
    pc \in {"constructed", "rejected"} =>
        /\ created.tag # "Panic"
        /\ (created.tag = "Ok") = (FirstFailure(arg) = "None")
        /\ (created.tag = "Ok" => created = Ok(arg))
        /\ (created.tag = "Err" => created = Err(FirstFailure(arg)))

\* C1 witness: month 13 with day 99 has been rejected with MonthNumberError.
C1_Witness ==
    /\ pc = "rejected"
    /\ arg.year = 2020 /\ arg.month = 13 /\ arg.day = 99
    /\ created = Err("MonthNumberError")

\* C9: days_of_the_month, a public function, returns 31, 30, 29 or 28 for the
\* months 1..12 (February by the leap rule) and fails with a MonthError result,
\* not a panic, for every month outside 1..12.
C9_DaysOfTheMonthValidatesMonth ==
    pc = "looked_up" =>
        /\ (arg.month \in 1 .. 12 => dim = Ret(RefMonthLength(arg.year, arg.month)))
        /\ (arg.month \notin 1 .. 12 => dim.tag # "Panic")

-----------------------------------------------------------------------------
(* SpecTime: dates around every rollover and around the u32 ceiling, each   *)
(* constructed, stamped and asked for its weekday, under both build         *)
(* profiles.                                                                *)

TimeYears ==
    {1970, 1971, 1972, 1999, 2000, 2001, 2020, 2021, 2038, 2100} \cup (2104 .. MaxYear)

TimeGrid ==
    {DT(y, m, d, h, mi, s) :
        y \in TimeYears, m \in 1 .. 12, d \in {1, 2, 15, 27, 28, 29, 30, 31},
        h \in {0, 12, 23}, mi \in {0, 59}, s \in {0, 59}}

\* The documented examples and the instants at the u32 ceiling.
TimeExamples ==
    {DT(2020, 2, 2, 2, 2, 2), DT(2021, 11, 15, 0, 0, 0), DT(2020, 4, 28, 12, 12, 12),
     DT(2106, 2, 7, 6, 28, 14), DT(2106, 2, 7, 6, 28, 15), DT(2106, 2, 7, 6, 28, 16),
     DT(2106, 2, 6, 6, 28, 15), DT(2106, 2, 7, 0, 0, 0), DT(2106, 2, 8, 0, 0, 0)}

InitTime ==
    /\ pc = "start"
    /\ overflow_checks \in BOOLEAN
    /\ arg \in TimeGrid \cup TimeExamples
    /\ created = NoResult
    /\ dim = NoRet
    /\ stamp = NoStamp
    /\ wday = NoRet
    /\ other = NoResult
    /\ cmp = NoCmp
    /\ text = <<>>
    /\ time_string_array = <<>>
    /\ parsed = NoResult
    /\ shown = <<>>

NextTime == New \/ Timestamp \/ Weekday

SpecTime == InitTime /\ [][NextTime]_vars


C3_WeekdayFromEpochDays ==
    (pc = "done" /\ InU32Range(created.val)) =>
        LET self == created.val
            midnight == [self EXCEPT !.hour = 0, !.minute = 0, !.second = 0]
            tomorrow == RefNextDay(self)
        IN  /\ wday.tag = "Ok"
            /\ wday.val \in 0 .. 6
            /\ wday.val = (4 + RefDayOf(self)) % 7
            /\ wday = weekday(midnight, overflow_checks)
            /\ (self = DT(1970, 1, 1, 0, 0, 0) => wday.val = 4)
            /\ (self = DT(2021, 11, 15, 0, 0, 0) => wday.val = 1)
            /\ (self = DT(2020, 4, 28, 12, 12, 12) => wday.val = 2)
            /\ InU32Range(tomorrow) =>
                /\ weekday(tomorrow, overflow_checks) = Ret((wday.val + 1) % 7)

\* C3 witness: the weekday of 2020-04-28 12:12:12 has been computed as Tuesday.
C3_Witness ==
    /\ pc = "done"
    /\ created.val = DT(2020, 4, 28, 12, 12, 12)
    /\ wday = Ret(2)

\* C10: for every DateTime accepted by new, the running u32 total of timestamp
\* never passes 2^32 - 1, timestamp returns Ok, the unwrap inside weekday does
\* not fail and weekday returns a value in 0..6.
C10_TimestampNeverOverflows ==
    pc = "done" =>
        /\ stamp.tag = "Ok"
        /\ ~stamp.carried
        /\ wday.tag = "Ok"
        /\ wday.val \in 0 .. 6

-----------------------------------------------------------------------------
(* SpecOrder: two values are constructed and compared with the derived      *)
(* operators.                                                               *)

OrderGrid ==
    {DT(y, m, d, h, mi, s) :
        y \in {1970, 2020, 2021, 2106}, m \in {1, 2, 12}, d \in {1, 28},
        h \in {0, 23}, mi \in {0, 59}, s \in {0, 59}}
        \cup {DT(2020, 4, 28, 12, 30, 12), DT(2020, 4, 28, 12, 12, 29)}

\* let other = UtcDatetime::new(b...)
NewOther ==
    /\ pc = "constructed"
    /\ \E b \in OrderGrid :
           other' = new(b.year, b.month, b.day, b.hour, b.minute, b.second)
    /\ pc' = IF other'.tag = "Ok" THEN "paired" ELSE "rejected"
    /\ UNCHANGED <<overflow_checks, arg, created, dim, stamp, wday, cmp,
                   text, time_string_array, parsed, shown>>

\* created < other, created > other, created == other
Compare ==
    /\ pc = "paired"
    /\ cmp' = [ord |-> partial_cmp(created.val, other.val), eq |-> eq(created.val, other.val)]
    /\ pc' = "compared"
    /\ UNCHANGED <<overflow_checks, arg, created, dim, stamp, wday, other,
                   text, time_string_array, parsed, shown>>

InitOrder ==
    /\ pc = "start"
    /\ overflow_checks \in BOOLEAN
    /\ arg \in OrderGrid
    /\ created = NoResult
    /\ dim = NoRet
    /\ stamp = NoStamp
    /\ wday = NoRet
    /\ other = NoResult
    /\ cmp = NoCmp
    /\ text = <<>>
    /\ time_string_array = <<>>
    /\ parsed = NoResult
    /\ shown = <<>>

NextOrder == New \/ NewOther \/ Compare

SpecOrder == InitOrder /\ [][NextOrder]_vars

\* Order of two u32 values in limbs.
U32Order(v, w) ==
    IF v.hi # w.hi THEN Ordering(v.hi, w.hi) ELSE Ordering(v.lo, w.lo)

\* The derived ordering and equality of a and b against their timestamps ta, tb.
MatchesTimestamps(c, ta, tb) ==
    /\ ta.tag = "Ok" /\ tb.tag = "Ok"
    /\ c.ord = U32Order(ta.val, tb.val)
    /\ c.eq = (ta.val = tb.val)
    /\ c.eq = (c.ord = "Equal")

\* C7: the derived comparison matches chronological order: for values a and b
\* accepted by new whose epoch seconds fit in 32 bits, a < b iff
\* timestamp(a) < timestamp(b), a > b iff timestamp(a) > timestamp(b) and
\* a == b iff timestamp(a) == timestamp(b); 2020-04-28 12:30:12 is greater
\* than 2020-04-28 12:12:29.
C7_OrderMatchesTimestamp ==
    (pc = "compared" /\ InU32Range(created.val) /\ InU32Range(other.val)) =>
        /\ MatchesTimestamps(cmp, timestamp(created.val, overflow_checks),
                             timestamp(other.val, overflow_checks))
        /\ (created.val = DT(2020, 4, 28, 12, 30, 12)
                /\ other.val = DT(2020, 4, 28, 12, 12, 29) => cmp.ord = "Greater")

\* C7 witness: 2020-04-28 12:30:12 has been compared with 2020-04-28 12:12:29
\* and found greater.
C7_Witness ==
    /\ pc = "compared"
    /\ created.val = DT(2020, 4, 28, 12, 30, 12)
    /\ other.val = DT(2020, 4, 28, 12, 12, 29)
    /\ cmp = [ord |-> "Greater", eq |-> FALSE]

-----------------------------------------------------------------------------
(* Parsing and rendering. *)

\* let text = created.to_string()
Display ==
    /\ pc = "constructed"
    /\ text' = fmt(created.val)
    /\ pc' = "text"
    /\ UNCHANGED <<overflow_checks, arg, created, dim, stamp, wday, other, cmp,
                   time_string_array, parsed, shown>>

\* let parsed = UtcDatetime::from_string(text)
FromString ==
    /\ pc = "text"
    /\ time_string_array' = tokens(text)
    /\ parsed' = from_string(text)
    /\ pc' = "parsed"
    /\ UNCHANGED <<overflow_checks, arg, created, dim, stamp, wday, other, cmp,
                   text, shown>>

\* let shown = parsed.unwrap().to_string(), when from_string returned Ok
DisplayParsed ==
    /\ pc = "parsed"
    /\ parsed.tag = "Ok"
    /\ shown' = fmt(parsed.val)
    /\ pc' = "shown"
    /\ UNCHANGED <<overflow_checks, arg, created, dim, stamp, wday, other, cmp,
                   text, time_string_array, parsed>>

\* Reference tokenizer: the maximal runs of the code points 48..57 of t.
RefIsDigit(c) == c \in 48 .. 57

RefRunStarts(t) ==
    {i \in 1 .. Len(t) : RefIsDigit(t[i]) /\ (i = 1 \/ ~RefIsDigit(t[i - 1]))}

RefRunEnd(t, i) ==
    CHOOSE j \in i .. Len(t) :
        /\ \A k \in i .. j : RefIsDigit(t[k])
        /\ (j = Len(t) \/ ~RefIsDigit(t[j + 1]))

RECURSIVE RefRunsFrom(_, _)
RefRunsFrom(t, starts) ==
    IF starts = {} THEN <<>>
    ELSE LET i == CHOOSE x \in starts : \A y \in starts : x <= y
         IN  <<SubSeq(t, i, RefRunEnd(t, i))>> \o RefRunsFrom(t, starts \ {i})

RefDigitRuns(t) == RefRunsFrom(t, RefRunStarts(t))

\* The number a run of digits writes, or max + 1 when it is above max.
RECURSIVE RefValue(_, _)
RefValue(run, max) ==
    IF run = <<>> THEN 0
    ELSE LET front == RefValue(SubSeq(run, 1, Len(run) - 1), max)
             n == front * 10 + (run[Len(run)] - 48)
         IN  IF n > max THEN max + 1 ELSE n

\* Each of six runs fits its field: the year a u16, the others a u8.
RefFits(runs) ==
    /\ RefValue(runs[1], 65535) <= 65535
    /\ \A k \in 2 .. 6 : RefValue(runs[k], 255) <= 255

-----------------------------------------------------------------------------
(* SpecText: strings are parsed; those accepted are rendered.  The strings  *)
(* are every string up to MaxLen over a small alphabet, and date-like       *)
(* strings of five to seven numbers in several separator styles.            *)

\* '0', '1', '9', '-', U+0130 (low byte 0x30) and U+5E74.
Alphabet == {48, 49, 57, 45, 304, 24180}

ShortTexts == UNION {[1 .. n -> Alphabet] : n \in 0 .. MaxLen}

\* A prefix, the separators after the first to the seventh number.
Styles ==
    { <<<<>>, <<45>>, <<45>>, <<32>>, <<58>>, <<58>>, <<32>>, <<>>>>,
      <<<<>>, <<47>>, <<47>>, <<32>>, <<58>>, <<58>>, <<47>>, <<>>>>,
      <<<<26102, 38388, 58>>, <<24180>>, <<26376>>, <<26085>>, <<28857>>, <<20998>>, <<31186>>, <<31186>>>>,
      <<<<>>, <<122>>, <<122>>, <<122>>, <<122>>, <<122>>, <<122>>, <<>>>>,
      <<<<32>>, <<44, 32>>, <<45, 45>>, <<32, 32>>, <<58>>, <<58>>, <<32>>, <<>>>>,
      <<<<>>, <<304>>, <<45>>, <<32>>, <<58>>, <<58>>, <<32>>, <<>>>> }

\* The numbers written: year, month, day, hour, minute, second and one more.
NumberLists ==
    {<<y, m, d, h, mi, s, 7>> :
        y \in {1969, 2020, 65535, 65536}, m \in {12, 13}, d \in {31, 99},
        h \in {23, 300}, mi \in {59}, s \in {0, 256}}

\* The first n numbers of nums written in a style, zero-padded to two digits or not.
RECURSIVE Written(_, _, _, _)
Written(nums, n, style, padded) ==
    IF n = 0 THEN style[1]
    ELSE Written(nums, n - 1, style, padded)
             \o (IF padded THEN Pad2(nums[n]) ELSE Decimal(nums[n]))
             \o style[n + 1]

DateTexts ==
    {Written(nums, n, style, padded) :
        nums \in NumberLists, n \in 5 .. 7, style \in Styles, padded \in BOOLEAN}

InitText ==
    /\ pc = "text"
    /\ overflow_checks \in BOOLEAN
    /\ arg = NoDT
    /\ created = NoResult
    /\ dim = NoRet
    /\ stamp = NoStamp
    /\ wday = NoRet
    /\ other = NoResult
    /\ cmp = NoCmp
    /\ text \in ShortTexts \cup DateTexts
    /\ time_string_array = <<>>
    /\ parsed = NoResult
    /\ shown = <<>>

NextText == FromString \/ DisplayParsed

SpecText == InitText /\ [][NextText]_vars

\* C4: the tokens from_string extracts are exactly the maximal runs of the code
\* points 48..57 of the input, whatever other code points the input holds.
C4_TokensAreDigitRuns ==
    pc \in {"parsed", "shown"} => time_string_array = RefDigitRuns(text)

\* C5: from_string returns TimeStringError when the input does not hold exactly
\* six runs of digits, and the result of new on the six numbers in order when it
\* holds six runs that each fit their field.
C5_SixTokensThenNew ==
    pc \in {"parsed", "shown"} =>
        /\ (Len(RefDigitRuns(text)) # 6 => parsed = Err("TimeStringError"))
        /\ (Len(RefDigitRuns(text)) = 6 /\ RefFits(RefDigitRuns(text)) =>
                parsed = new(RefValue(RefDigitRuns(text)[1], 65535),
                             RefValue(RefDigitRuns(text)[2], 255),
                             RefValue(RefDigitRuns(text)[3], 255),
                             RefValue(RefDigitRuns(text)[4], 255),
                             RefValue(RefDigitRuns(text)[5], 255),
                             RefValue(RefDigitRuns(text)[6], 255)))

\* C6: on an input of exactly six runs of digits of which one is above its
\* field's width (the year above 65535, another above 255), from_string returns
\* an error result and does not panic.
C6_OverflowIsAnError ==
    (pc \in {"parsed", "shown"} /\ Len(RefDigitRuns(text)) = 6
        /\ ~RefFits(RefDigitRuns(text))) => parsed.tag = "Err"

-----------------------------------------------------------------------------
(* SpecRound: a value is constructed, rendered, parsed back and rendered    *)
(* again.                                                                   *)

RoundArgs ==
    {DT(y, m, d, h, mi, s) :
        y \in {1970, 2020, 9999, 10000, 65535}, m \in {1, 2, 9, 10, 12},
        d \in {1, 9, 10, 29, 31}, h \in {0, 9, 10, 23}, mi \in {0, 9, 59}, s \in {0, 9, 59}}

InitRound ==
    /\ pc = "start"
    /\ overflow_checks \in BOOLEAN
    /\ arg \in RoundArgs
    /\ created = NoResult
    /\ dim = NoRet
    /\ stamp = NoStamp
    /\ wday = NoRet
    /\ other = NoResult
    /\ cmp = NoCmp
    /\ text = <<>>
    /\ time_string_array = <<>>
    /\ parsed = NoResult
    /\ shown = <<>>

NextRound == New \/ Display \/ FromString \/ DisplayParsed

SpecRound == InitRound /\ [][NextRound]_vars

\* The k-th decimal digit of n from the left, n written with len digits.
RefDigit(n, len, k) == 48 + ((n \div (10 ^ (len - k))) % 10)

\* n written with exactly len decimal digits.
RefDigits(n, len) == [k \in 1 .. len |-> RefDigit(n, len, k)]

\* The number of decimal digits of n.
RefWidth(n) == CHOOSE len \in 1 .. 5 : n < 10 ^ len /\ (len = 1 \/ n >= 10 ^ (len - 1))

\* Y-MM-DD HH:MM:SS
RefRendering(d) ==
    RefDigits(d.year, RefWidth(d.year)) \o <<45>> \o RefDigits(d.month, 2) \o <<45>>
        \o RefDigits(d.day, 2) \o <<32>> \o RefDigits(d.hour, 2) \o <<58>>
        \o RefDigits(d.minute, 2) \o <<58>> \o RefDigits(d.second, 2)

\* C8: for every value accepted by new, years of five digits included, the
\* rendering is the unpadded year and the five other fields at two digits in the
\* shape Y-MM-DD HH:MM:SS; from_string of it returns Ok of an equal value; and
\* rendering the parsed value gives the same string again.
C8_DisplayParseRoundTrip ==
    /\ (pc \in {"text", "parsed", "shown"} => text = RefRendering(created.val))
    /\ (pc \in {"parsed", "shown"} =>
            /\ parsed = Ok(created.val)
            /\ eq(parsed.val, created.val)
            /\ Len(time_string_array) = 6)
    /\ (pc = "shown" => shown = text)

\* C8 witness: 65535-12-31 23:59:59 has been rendered with its five-digit year,
\* parsed back and rendered again.
C8_Witness ==
    /\ pc = "shown"
    /\ created.val = DT(65535, 12, 31, 23, 59, 59)
    /\ Len(text) = 20
    /\ parsed.val.year = 65535
    /\ shown = text

=============================================================================
